---- MODULE Spec2Model ----
(***************************************************************************)
(* Progressive channel cache of the Slack MCP server                       *)
(* (pkg/provider/api.go): the id map and the name map of ApiProvider, the  *)
(* RWMutex that guards them, the start-up load, the two-phase background   *)
(* population, the fetch-by-id fallback of GetChannelInfo, the readers,    *)
(* and the rate limiter of RefreshChannelCache.                            *)
(*                                                                         *)
(* Strings are sequences of one-character strings, so that HasPrefix and   *)
(* ToLower are computed and not assumed.  Times are seconds; the clock     *)
(* advances in steps of TickSteps.  The pauses between two pages (500 ms, *)
(* 2 s) are shorter than the clock step and end at the next fetch.         *)
(***************************************************************************)
EXTENDS Integers, Sequences, FiniteSets, Bags, TLC

VARIABLES
    client,             \* ap.client: "nil" or "set"
    channels,           \* ap.channels: channel id -> Channel
    channelNames,       \* ap.channelNames: name -> channel id
    channelsMutex,      \* ap.channelsMutex: [w: writer holds it, r: number of readers]
    lastChannelRefresh, \* ap.lastChannelRefresh
    refreshCalls,       \* ap.refreshCalls
    refreshResetTime,   \* ap.refreshResetTime
    now,                \* time.Now()
    cacheFile,          \* the file .channels_cache.json
    upstream,           \* what the Slack API may answer
    horizon,            \* the time at which the clock stops
    taskCap,            \* the number of population goroutines that may be alive
    audit,              \* whether the ids Slack returns are recorded in fetched
    fetched,            \* the channel ids of the pages Slack has returned
    allowed,            \* the Allowed results so far, recorded when audit is set
    boots,              \* the callers of Provide() that run the start-up path
    tasks,              \* bag of running refreshChannelsInBackground goroutines
    reader,             \* a caller inside the read section of a read-only call
    gci                 \* a GetChannelInfo call

vars == <<client, channels, channelNames, channelsMutex, lastChannelRefresh,
          refreshCalls, refreshResetTime, now, cacheFile, upstream, horizon,
          taskCap, audit, fetched, allowed, boots,
          tasks, reader, gci>>

----------------------------------------------------------------------------
(* Bounds of the model *)

MaxTime == 30          \* the clock stops here when the cache is studied
MaxTimeRL == 360       \* the clock stops here when the rate limiter is studied
MaxTasks == 2          \* population goroutines alive at once, cache studied
MaxTasksRL == 1        \* population goroutines alive at once, rate limiter studied
MaxCursor == 1         \* longest cursor chain: pages 0..MaxCursor

TickSteps == {30}
RetryAfters == {30}    \* RateLimitedError.RetryAfter values upstream sends

(* Program constants *)

BaseWait == 30         \* 30*time.Second
StepWait == 30         \* time.Duration(ap.refreshCalls)*30*time.Second
Window == 300          \* 5*time.Minute
MaxCallsPerWindow == 3 \* ap.refreshCalls >= 3
ClampRetry == 30       \* retryAfter = 30 * time.Second

(* The zero time.Time of a field New() never sets: an instant so far in   *)
(* the past that now.Sub(zero) exceeds every duration of the program.     *)
ZeroTime == 0 - 1000000

----------------------------------------------------------------------------
(* Strings *)

UpperToLower == [c \in {"B", "C", "D", "G", "O", "R"} |->
                    CASE c = "B" -> "b" [] c = "C" -> "c" [] c = "D" -> "d"
                      [] c = "G" -> "g" [] c = "O" -> "o" [] c = "R" -> "r"]

\* strings.ToLower
ToLower(s) == [i \in DOMAIN s |->
                 IF s[i] \in DOMAIN UpperToLower THEN UpperToLower[s[i]] ELSE s[i]]

\* strings.HasPrefix(s, p) for a one-character p
HasPrefix(s, p) == Len(s) > 0 /\ s[1] = p

\* the identifier shape test of ResolveChannelID and GetChannelInfo
LooksLikeID(s) == HasPrefix(s, "C") \/ HasPrefix(s, "D") \/ HasPrefix(s, "G")

EmptyStr == <<>>

\* identifiers
C1 == <<"C", "1">>
C2 == <<"C", "2">>
D1 == <<"D", "1">>
D2 == <<"D", "2">>
D3 == <<"D", "3">>
U1 == <<"U", "1">>
U2 == <<"U", "2">>
U3 == <<"U", "3">>

\* names
general == <<"g", "e", "n">>
General == <<"G", "e", "n">>
random  == <<"r", "n", "d">>
dave    == <<"d", "a", "v">>
Dave    == <<"D", "a", "v">>
rob     == <<"r", "o", "b">>
Rob     == <<"R", "o", "b">>
ROB     == <<"R", "O", "B">>
bob     == <<"b", "o", "b">>
Bob     == <<"B", "o", "b">>

\* ap.users: loaded by bootstrapDependencies before the channel load
users == (U1 :> [Name |-> dave, RealName |-> Dave])
         @@ (U2 :> [Name |-> bob, RealName |-> Rob])
         @@ (U3 :> [Name |-> rob, RealName |-> Bob])

\* slack.Channel, the fields the cache code reads
Chan(id, name, member) ==
    [ID |-> id, Name |-> name, IsMember |-> member, IsIM |-> FALSE, User |-> EmptyStr]

IM(id, user, member) ==
    [ID |-> id, Name |-> EmptyStr, IsMember |-> member, IsIM |-> TRUE, User |-> user]

----------------------------------------------------------------------------
(* Maps *)

EmptyMap == <<>>

Has(m, k) == k \in DOMAIN m

Put(m, k, v) == [x \in (DOMAIN m) \cup {k} |-> IF x = k THEN v ELSE m[x]]

\* m[k] = v only when k is not a key yet
PutIfAbsent(m, k, v) == IF Has(m, k) THEN m ELSE Put(m, k, v)

\* the orders in which a range over the map m may yield its values: the
\* orders in which the snapshot of m may list them in the file
Orderings(m) ==
    LET n == Cardinality(DOMAIN m)
    IN  {[i \in 1..n |-> m[f[i]]] :
            f \in {g \in [1..n -> DOMAIN m] : \A i, j \in 1..n : i # j => g[i] # g[j]}}

----------------------------------------------------------------------------
(* sync.RWMutex *)

Unlocked == [w |-> FALSE, r |-> 0]

CanLock(mu) == ~mu.w /\ mu.r = 0
CanRLock(mu) == ~mu.w

Lock(mu) == [mu EXCEPT !.w = TRUE]
Unlock(mu) == [mu EXCEPT !.w = FALSE]
RLock(mu) == [mu EXCEPT !.r = @ + 1]
RUnlock(mu) == [mu EXCEPT !.r = @ - 1]

----------------------------------------------------------------------------
(* time *)

\* t.Sub(u)
Sub(t, u) == t - u

----------------------------------------------------------------------------
(* Ingestion of one channel, as the four writers of the index do it *)

\* ap.channelNames[ch.Name] = ch.ID; ap.channelNames[strings.ToLower(ch.Name)] = ch.ID
NameAliases(names, ch) ==
    IF ch.Name # EmptyStr
    THEN Put(Put(names, ch.Name, ch.ID), ToLower(ch.Name), ch.ID)
    ELSE names

\* UserAliases without the lower-cased aliases
UserAliasesExact(names, ch) ==
    IF ch.IsIM /\ ch.User # EmptyStr /\ Has(users, ch.User)
    THEN LET user == users[ch.User]
             n1 == IF user.RealName # EmptyStr
                   THEN Put(names, user.RealName, ch.ID)
                   ELSE names
         IN  IF user.Name # EmptyStr THEN Put(n1, user.Name, ch.ID) ELSE n1
    ELSE names

\* for a DM, the aliases by the real name and the name of its user
UserAliases(names, ch) ==
    IF ch.IsIM /\ ch.User # EmptyStr /\ Has(users, ch.User)
    THEN LET user == users[ch.User]
             n1 == IF user.RealName # EmptyStr
                   THEN Put(Put(names, user.RealName, ch.ID), ToLower(user.RealName), ch.ID)
                   ELSE names
         IN  IF user.Name # EmptyStr
             THEN Put(Put(n1, user.Name, ch.ID), ToLower(user.Name), ch.ID)
             ELSE n1
    ELSE names

\* warm start: ap.channels[ch.ID] = ch
LoadID(chs, ch) == Put(chs, ch.ID, ch)

\* LoadNames without the aliases of the channel name
LoadNamesUsersOnly(names, ch) == UserAliases(names, ch)

LoadNames(names, ch) == UserAliases(NameAliases(names, ch), ch)

RECURSIVE LoadAll(_, _, _)
\* the loop of loadChannelsProgressive over cachedChannels, from entry i on
LoadAll(idx, cached, i) ==
    IF i > Len(cached) THEN idx
    ELSE LoadAll([chs |-> LoadID(idx.chs, cached[i]),
                  names |-> LoadNames(idx.names, cached[i])], cached, i + 1)

\* MemberID that leaves a cached channel as it is
MemberIDIfAbsent(chs, ch) == PutIfAbsent(chs, ch.ID, [ch EXCEPT !.IsMember = TRUE])

\* Phase 1: ch.IsMember = true; ap.channels[ch.ID] = ch
MemberID(chs, ch) == Put(chs, ch.ID, [ch EXCEPT !.IsMember = TRUE])

\* MemberNames that drops a name held by another id as ambiguous
MemberNamesDropsClash(names, ch) ==
    IF ch.Name = EmptyStr THEN names
    ELSE IF Has(names, ch.Name) /\ names[ch.Name] # ch.ID THEN [n \in (DOMAIN names) \ {ch.Name} |-> names[n]]
    ELSE Put(Put(names, ch.Name, ch.ID), ToLower(ch.Name), ch.ID)

MemberNames(names, ch) == UserAliases(NameAliases(names, ch), ch)

\* AllID that keys the id map by the name of the channel
AllIDByName(chs, ch) == Put(chs, ch.Name, ch)

\* Phase 2, for an id that is not in the cache: ap.channels[ch.ID] = ch
AllID(chs, ch) == Put(chs, ch.ID, ch)

\* AllNames that overwrites, as the member-scoped ingest does
AllNamesAlways(names, ch) ==
    IF ch.Name # EmptyStr
    THEN Put(Put(names, ch.Name, ch.ID), ToLower(ch.Name), ch.ID)
    ELSE names

\* Phase 2: the aliases are written only where the name is not mapped yet
AllNames(names, ch) ==
    IF ch.Name # EmptyStr
    THEN PutIfAbsent(PutIfAbsent(names, ch.Name, ch.ID), ToLower(ch.Name), ch.ID)
    ELSE names

\* GetChannelInfo fallback: ap.channels[channelID] = *info
InfoID(chs, channelID, info) == Put(chs, channelID, info)

\* InfoNames that writes no alias
InfoNamesNone(names, info) == names

\* GetChannelInfo fallback: the name mappings of info
InfoNames(names, info) ==
    IF info.Name # EmptyStr
    THEN Put(Put(names, info.Name, info.ID), ToLower(info.Name), info.ID)
    ELSE names

RECURSIVE IngestMember(_, _, _)
\* the loop of Phase 1 over one page, from entry i on
IngestMember(idx, page, i) ==
    IF i > Len(page) THEN idx
    ELSE IngestMember([chs |-> MemberID(idx.chs, page[i]),
                       names |-> MemberNames(idx.names, page[i])], page, i + 1)

RECURSIVE IngestAll(_, _, _)
\* the loop of Phase 2 over one page, from entry i on
IngestAll(idx, page, i) ==
    IF i > Len(page) THEN idx
    ELSE IF Has(idx.chs, page[i].ID) THEN IngestAll(idx, page, i + 1)
    ELSE IngestAll([chs |-> AllID(idx.chs, page[i]),
                    names |-> AllNames(idx.names, page[i])], page, i + 1)

----------------------------------------------------------------------------
(* Readers *)

\* ResolveChannelID that tries the lower-cased name first
ResolveLowerFirst(channelNameOrID) ==
    IF LooksLikeID(channelNameOrID) THEN channelNameOrID
    ELSE IF Has(channelNames, ToLower(channelNameOrID))
         THEN channelNames[ToLower(channelNameOrID)]
    ELSE IF Has(channelNames, channelNameOrID) THEN channelNames[channelNameOrID]
    ELSE channelNameOrID

\* ResolveChannelID: the value returned for channelNameOrID
ResolveChannelID(channelNameOrID) ==
    IF LooksLikeID(channelNameOrID) THEN channelNameOrID
    ELSE IF Has(channelNames, channelNameOrID) THEN channelNames[channelNameOrID]
    ELSE IF Has(channelNames, ToLower(channelNameOrID))
         THEN channelNames[ToLower(channelNameOrID)]
    ELSE channelNameOrID

\* GetCachedChannels: the channels returned, as a set
GetCachedChannels == {channels[id] : id \in DOMAIN channels}

\* GetCacheInfo
GetCacheInfo == [LastRefresh |-> lastChannelRefresh,
                 ChannelCount |-> Cardinality(DOMAIN channels),
                 RefreshCount |-> refreshCalls]

----------------------------------------------------------------------------
(* The Slack API *)

\* Answers of users.conversations (Phase 1), conversations.list (Phase 2)
\* and conversations.info (fallback), and whether a call may fail or be
\* rate limited.
RichUpstream ==
    [member |-> {<<Chan(C1, general, FALSE)>>, <<Chan(C2, general, FALSE)>>},
     all    |-> {<<Chan(C1, general, FALSE), Chan(C2, random, FALSE)>>,
                 <<Chan(C2, general, FALSE)>>},
     info   |-> {Chan(C2, general, FALSE)},
     fails  |-> TRUE,
     limits |-> FALSE]

\* the channel ids of a page
PageIDs(page) == {page[i].ID : i \in DOMAIN page}

\* the ids returned so far, once the API has returned page
Returned(page) == IF audit THEN fetched \cup PageIDs(page) ELSE fetched

\* the cursors a page fetched with cursor c may name as the next one; 0 is ""
NextCursors(c) == {0} \cup (IF c < MaxCursor THEN {c + 1} ELSE {})

----------------------------------------------------------------------------
(* Goroutines *)

\* a goroutine at the first statement of refreshChannelsInBackground
NewTask == [pc |-> "p1fetch", cursor |-> 0, page |-> <<>>, next |-> 0,
            i |-> 0, sub |-> 0, wake |-> 0, snap |-> EmptyMap]

Running == BagToSet(tasks)

Swap(t, u) == (tasks (-) SetToBag({t})) (+) SetToBag({u})

Drop(t) == tasks (-) SetToBag({t})

\* go ap.refreshChannelsInBackground(ctx)
Launch(bag) == bag (+) SetToBag({NewTask})

BootIds == {"main"}

indexVars == <<channels, channelNames>>
limiterVars == <<lastChannelRefresh, refreshCalls, refreshResetTime>>
callerVars == <<reader, gci>>
envVars == <<now, cacheFile, upstream, horizon, taskCap, audit, fetched, allowed>>

----------------------------------------------------------------------------
(* Start-up: Provide, bootstrapDependencies, loadChannelsProgressive *)

\* Provide(): the test ap.client == nil
ProvideCall(b) ==
    /\ boots[b].pc = "idle"
    /\ boots' = [boots EXCEPT ![b].pc = IF client = "nil" THEN "boot" ELSE "done"]
    /\ UNCHANGED <<client, indexVars, channelsMutex, limiterVars, envVars, tasks,
                   callerVars>>

\* ap.client = ap.boot()
ProvideBoot(b) ==
    /\ boots[b].pc = "boot"
    /\ client' = "set"
    /\ boots' = [boots EXCEPT ![b].pc = "bootstrap"]
    /\ UNCHANGED <<indexVars, channelsMutex, limiterVars, envVars, tasks, callerVars>>

\* bootstrapDependencies up to the read of the channel cache file: the
\* users are loaded or fetched (a failed fetch returns the error and the
\* channels are never loaded), then ioutil.ReadFile and json.Unmarshal
Bootstrap(b) ==
    /\ boots[b].pc = "bootstrap"
    /\ \/ boots' = [boots EXCEPT ![b].pc = "done"]
       \/ \E cachedChannels \in Orderings(cacheFile.chans) :
            boots' = [boots EXCEPT ![b].pc = "loadlock",
                                   ![b].data = [ok |-> cacheFile.ok,
                                                chans |-> cachedChannels]]
    /\ UNCHANGED <<client, indexVars, channelsMutex, limiterVars, envVars, tasks,
                   callerVars>>

\* LoadLock that replaces the id map and keeps the name map
LoadLockKeepsNames(b) ==
    /\ boots[b].pc = "loadlock"
    /\ CanLock(channelsMutex)
    /\ channelsMutex' = Lock(channelsMutex)
    /\ channels' = EmptyMap
    /\ boots' = [boots EXCEPT ![b].pc = "loading"]
    /\ UNCHANGED <<client, channelNames, limiterVars, envVars, tasks, callerVars>>

\* ap.channelsMutex.Lock(); ap.channels = make(...); ap.channelNames = make(...)
LoadLock(b) ==
    /\ boots[b].pc = "loadlock"
    /\ CanLock(channelsMutex)
    /\ channelsMutex' = Lock(channelsMutex)
    /\ channels' = EmptyMap
    /\ channelNames' = EmptyMap
    /\ boots' = [boots EXCEPT ![b].pc = "loading"]
    /\ UNCHANGED <<client, limiterVars, envVars, tasks, callerVars>>

\* LoadFill that sets lastChannelRefresh without a parsed file too
LoadFillStamps(b) ==
    /\ boots[b].pc = "loading"
    /\ BagCardinality(tasks) < taskCap
    /\ LET data == boots[b].data
           idx == LoadAll([chs |-> channels, names |-> channelNames], data.chans, 1)
       IN  IF data.ok
           THEN /\ channels' = idx.chs
                /\ channelNames' = idx.names
           ELSE UNCHANGED <<channels, channelNames>>
    /\ lastChannelRefresh' = now
    /\ channelsMutex' = Unlock(channelsMutex)
    /\ tasks' = Launch(tasks)
    /\ boots' = [boots EXCEPT ![b].pc = "done"]
    /\ UNCHANGED <<client, refreshCalls, refreshResetTime, envVars, callerVars>>

\* the rest of loadChannelsProgressive: with a parsed file the entries are
\* loaded and lastChannelRefresh is set; in both cases the mutex is
\* released and the population is launched
LoadFill(b) ==
    /\ boots[b].pc = "loading"
    /\ BagCardinality(tasks) < taskCap
    /\ LET data == boots[b].data
           idx == LoadAll([chs |-> channels, names |-> channelNames], data.chans, 1)
       IN  IF data.ok
           THEN /\ channels' = idx.chs
                /\ channelNames' = idx.names
                /\ lastChannelRefresh' = now
           ELSE UNCHANGED <<channels, channelNames, lastChannelRefresh>>
    /\ channelsMutex' = Unlock(channelsMutex)
    /\ tasks' = Launch(tasks)
    /\ boots' = [boots EXCEPT ![b].pc = "done"]
    /\ UNCHANGED <<client, refreshCalls, refreshResetTime, envVars, callerVars>>

----------------------------------------------------------------------------
(* refreshChannelsInBackground, Phase 1: the channels the user is member of *)

\* P1Fetch that returns from the goroutine when the fetch fails
P1FetchReturns(t) ==
    /\ t.pc = "p1fetch"
    /\ \/ \E d \in RetryAfters :
            /\ upstream.limits
            /\ now + d <= horizon
            /\ tasks' = Swap(t, [t EXCEPT !.pc = "p1sleep", !.wake = now + d])
            /\ UNCHANGED fetched
       \/ /\ upstream.fails
          /\ tasks' = Drop(t)
          /\ UNCHANGED fetched
       \/ \E page \in upstream.member, nextCursor \in NextCursors(t.cursor) :
            /\ tasks' = Swap(t, [t EXCEPT !.pc = "p1lock", !.page = page,
                                          !.next = nextCursor])
            /\ fetched' = Returned(page)
    /\ UNCHANGED <<client, indexVars, channelsMutex, limiterVars, now, cacheFile,
                   upstream, horizon, taskCap, audit, allowed, boots, callerVars>>

\* ap.client.GetConversationsForUser(cursor): rate limited (sleep, then
\* the same cursor again), failed (break), or a page and the next cursor
P1Fetch(t) ==
    /\ t.pc = "p1fetch"
    /\ \/ \E d \in RetryAfters :
            /\ upstream.limits
            /\ now + d <= horizon
            /\ tasks' = Swap(t, [t EXCEPT !.pc = "p1sleep", !.wake = now + d])
            /\ UNCHANGED fetched
       \/ /\ upstream.fails
          /\ tasks' = Swap(t, [t EXCEPT !.pc = "p2fetch", !.cursor = 0])
          /\ UNCHANGED fetched
       \/ \E page \in upstream.member, nextCursor \in NextCursors(t.cursor) :
            /\ tasks' = Swap(t, [t EXCEPT !.pc = "p1lock", !.page = page,
                                          !.next = nextCursor])
            /\ fetched' = Returned(page)
    /\ UNCHANGED <<client, indexVars, channelsMutex, limiterVars, now, cacheFile,
                   upstream, horizon, taskCap, audit, allowed, boots, callerVars>>

\* P1Wake that does not wait for the end of the sleep
P1WakeAtOnce(t) ==
    /\ t.pc = "p1sleep"
    /\ tasks' = Swap(t, [t EXCEPT !.pc = "p1fetch", !.wake = 0])
    /\ UNCHANGED <<client, indexVars, channelsMutex, limiterVars, envVars, boots,
                   callerVars>>

\* time.Sleep(rateLimitErr.RetryAfter); continue
P1Wake(t) ==
    /\ t.pc = "p1sleep"
    /\ now >= t.wake
    /\ tasks' = Swap(t, [t EXCEPT !.pc = "p1fetch", !.wake = 0])
    /\ UNCHANGED <<client, indexVars, channelsMutex, limiterVars, envVars, boots,
                   callerVars>>

\* P1Lock that goes into the loop without taking the mutex
P1LockMissing(t) ==
    /\ t.pc = "p1lock"
    /\ tasks' = Swap(t, [t EXCEPT !.pc = "p1ingest", !.i = 1, !.sub = 0])
    /\ UNCHANGED <<client, indexVars, channelsMutex, limiterVars, envVars, boots,
                   callerVars>>

\* ap.channelsMutex.Lock() before the loop over the page
P1Lock(t) ==
    /\ t.pc = "p1lock"
    /\ CanLock(channelsMutex)
    /\ channelsMutex' = Lock(channelsMutex)
    /\ tasks' = Swap(t, [t EXCEPT !.pc = "p1ingest", !.i = 1, !.sub = 0])
    /\ UNCHANGED <<client, indexVars, limiterVars, envVars, boots, callerVars>>

\* P1Store that leaves an entry that is already cached as it is
P1StoreIfAbsent(t) ==
    /\ t.pc = "p1ingest" /\ t.i <= Len(t.page) /\ t.sub = 0
    /\ channels' = PutIfAbsent(channels, t.page[t.i].ID, [t.page[t.i] EXCEPT !.IsMember = TRUE])
    /\ tasks' = Swap(t, [t EXCEPT !.sub = 1])
    /\ UNCHANGED <<client, channelNames, channelsMutex, limiterVars, envVars, boots,
                   callerVars>>

\* ch.IsMember = true; ap.channels[ch.ID] = ch
P1Store(t) ==
    /\ t.pc = "p1ingest" /\ t.i <= Len(t.page) /\ t.sub = 0
    /\ channels' = MemberID(channels, t.page[t.i])
    /\ tasks' = Swap(t, [t EXCEPT !.sub = 1])
    /\ UNCHANGED <<client, channelNames, channelsMutex, limiterVars, envVars, boots,
                   callerVars>>

\* P1Alias that leaves a name that is mapped already as it is, as Phase 2 does
P1AliasIfAbsent(t) ==
    /\ t.pc = "p1ingest" /\ t.i <= Len(t.page) /\ t.sub = 1
    /\ channelNames' = AllNames(channelNames, t.page[t.i])
    /\ tasks' = Swap(t, [t EXCEPT !.i = @ + 1, !.sub = 0])
    /\ UNCHANGED <<client, channels, channelsMutex, limiterVars, envVars, boots,
                   callerVars>>

\* the name mappings of the channel just stored
P1Alias(t) ==
    /\ t.pc = "p1ingest" /\ t.i <= Len(t.page) /\ t.sub = 1
    /\ channelNames' = MemberNames(channelNames, t.page[t.i])
    /\ tasks' = Swap(t, [t EXCEPT !.i = @ + 1, !.sub = 0])
    /\ UNCHANGED <<client, channels, channelsMutex, limiterVars, envVars, boots,
                   callerVars>>

\* P1Unlock that keeps the mutex until the goroutine ends
P1UnlockKeeps(t) ==
    /\ t.pc = "p1ingest" /\ t.i > Len(t.page)
    /\ tasks' = Swap(t, IF t.next = 0
                        THEN [t EXCEPT !.pc = "p2fetch", !.cursor = 0, !.page = <<>>,
                                       !.i = 0]
                        ELSE [t EXCEPT !.pc = "p1fetch", !.cursor = t.next,
                                       !.page = <<>>, !.next = 0, !.i = 0])
    /\ UNCHANGED <<client, indexVars, channelsMutex, limiterVars, envVars, boots,
                   callerVars>>

\* ap.channelsMutex.Unlock(); then the end of the phase when nextCursor
\* is "", else memberCursor = nextCursor and the 500 ms pause, which is
\* shorter than a clock step and ends at the next fetch
P1Unlock(t) ==
    /\ t.pc = "p1ingest" /\ t.i > Len(t.page)
    /\ channelsMutex' = Unlock(channelsMutex)
    /\ tasks' = Swap(t, IF t.next = 0
                        THEN [t EXCEPT !.pc = "p2fetch", !.cursor = 0, !.page = <<>>,
                                       !.i = 0]
                        ELSE [t EXCEPT !.pc = "p1fetch", !.cursor = t.next,
                                       !.page = <<>>, !.next = 0, !.i = 0])
    /\ UNCHANGED <<client, indexVars, limiterVars, envVars, boots, callerVars>>

----------------------------------------------------------------------------
(* Phase 2: all channels *)

\* P2Fetch that breaks out of the loop when the fetch fails, as Phase 1 does
P2FetchBreaks(t) ==
    /\ t.pc = "p2fetch"
    /\ \/ \E d \in RetryAfters :
            /\ upstream.limits
            /\ now + d <= horizon
            /\ tasks' = Swap(t, [t EXCEPT !.pc = "p2sleep", !.wake = now + d])
            /\ UNCHANGED fetched
       \/ /\ upstream.fails
          /\ tasks' = Swap(t, [t EXCEPT !.pc = "save", !.cursor = 0])
          /\ UNCHANGED fetched
       \/ \E page \in upstream.all, nextCursor \in NextCursors(t.cursor) :
            /\ tasks' = Swap(t, [t EXCEPT !.pc = "p2lock", !.page = page,
                                          !.next = nextCursor])
            /\ fetched' = Returned(page)
    /\ UNCHANGED <<client, indexVars, channelsMutex, limiterVars, now, cacheFile,
                   upstream, horizon, taskCap, audit, allowed, boots, callerVars>>

\* ap.client.GetConversations(cursor): rate limited, failed (return), or
\* a page and the next cursor
P2Fetch(t) ==
    /\ t.pc = "p2fetch"
    /\ \/ \E d \in RetryAfters :
            /\ upstream.limits
            /\ now + d <= horizon
            /\ tasks' = Swap(t, [t EXCEPT !.pc = "p2sleep", !.wake = now + d])
            /\ UNCHANGED fetched
       \/ /\ upstream.fails
          /\ tasks' = Drop(t)
          /\ UNCHANGED fetched
       \/ \E page \in upstream.all, nextCursor \in NextCursors(t.cursor) :
            /\ tasks' = Swap(t, [t EXCEPT !.pc = "p2lock", !.page = page,
                                          !.next = nextCursor])
            /\ fetched' = Returned(page)
    /\ UNCHANGED <<client, indexVars, channelsMutex, limiterVars, now, cacheFile,
                   upstream, horizon, taskCap, audit, allowed, boots, callerVars>>

P2Wake(t) ==
    /\ t.pc = "p2sleep"
    /\ now >= t.wake
    /\ tasks' = Swap(t, [t EXCEPT !.pc = "p2fetch", !.wake = 0])
    /\ UNCHANGED <<client, indexVars, channelsMutex, limiterVars, envVars, boots,
                   callerVars>>

P2Lock(t) ==
    /\ t.pc = "p2lock"
    /\ CanLock(channelsMutex)
    /\ channelsMutex' = Lock(channelsMutex)
    /\ tasks' = Swap(t, [t EXCEPT !.pc = "p2ingest", !.i = 1, !.sub = 0])
    /\ UNCHANGED <<client, indexVars, limiterVars, envVars, boots, callerVars>>

\* P2Store without the test that the id is not cached yet
P2StoreAlways(t) ==
    /\ t.pc = "p2ingest" /\ t.i <= Len(t.page) /\ t.sub = 0
    /\ channels' = AllID(channels, t.page[t.i])
    /\ tasks' = Swap(t, [t EXCEPT !.sub = 1])
    /\ UNCHANGED <<client, channelNames, channelsMutex, limiterVars, envVars, boots,
                   callerVars>>

\* if _, exists := ap.channels[ch.ID]; !exists { ap.channels[ch.ID] = ch
P2Store(t) ==
    /\ t.pc = "p2ingest" /\ t.i <= Len(t.page) /\ t.sub = 0
    /\ IF Has(channels, t.page[t.i].ID)
       THEN /\ tasks' = Swap(t, [t EXCEPT !.i = @ + 1])
            /\ UNCHANGED channels
       ELSE /\ channels' = AllID(channels, t.page[t.i])
            /\ tasks' = Swap(t, [t EXCEPT !.sub = 1])
    /\ UNCHANGED <<client, channelNames, channelsMutex, limiterVars, envVars, boots,
                   callerVars>>

\* P2Alias that goes on to the next channel without the name mappings
P2AliasSkips(t) ==
    /\ t.pc = "p2ingest" /\ t.i <= Len(t.page) /\ t.sub = 1
    /\ tasks' = Swap(t, [t EXCEPT !.i = @ + 1, !.sub = 0])
    /\ UNCHANGED <<client, indexVars, channelsMutex, limiterVars, envVars, boots,
                   callerVars>>

\* the name mappings of a channel that was not in the cache
P2Alias(t) ==
    /\ t.pc = "p2ingest" /\ t.i <= Len(t.page) /\ t.sub = 1
    /\ channelNames' = AllNames(channelNames, t.page[t.i])
    /\ tasks' = Swap(t, [t EXCEPT !.i = @ + 1, !.sub = 0])
    /\ UNCHANGED <<client, channels, channelsMutex, limiterVars, envVars, boots,
                   callerVars>>

\* P2Unlock that goes on with the member loop when there is a next cursor
P2UnlockToMembers(t) ==
    /\ t.pc = "p2ingest" /\ t.i > Len(t.page)
    /\ channelsMutex' = Unlock(channelsMutex)
    /\ LET u == [t EXCEPT !.page = <<>>, !.i = 0, !.next = 0]
       IN  tasks' = Swap(t, IF t.next = 0
                            THEN [u EXCEPT !.pc = "save", !.cursor = 0]
                            ELSE [u EXCEPT !.pc = "p1fetch", !.cursor = t.next])
    /\ UNCHANGED <<client, indexVars, limiterVars, envVars, boots, callerVars>>

\* ap.channelsMutex.Unlock(); the end of the phase when nextCursor is "",
\* else cursor = nextCursor; the 2 s pause after every third batch is
\* shorter than a clock step and ends at the next fetch
P2Unlock(t) ==
    /\ t.pc = "p2ingest" /\ t.i > Len(t.page)
    /\ channelsMutex' = Unlock(channelsMutex)
    /\ LET u == [t EXCEPT !.page = <<>>, !.i = 0, !.next = 0]
       IN  tasks' = Swap(t, IF t.next = 0
                            THEN [u EXCEPT !.pc = "save", !.cursor = 0]
                            ELSE [u EXCEPT !.pc = "p2fetch", !.cursor = t.next])
    /\ UNCHANGED <<client, indexVars, limiterVars, envVars, boots, callerVars>>

----------------------------------------------------------------------------
(* The end of refreshChannelsInBackground: the snapshot *)

\* ap.channelsMutex.RLock()
SaveRLock(t) ==
    /\ t.pc = "save"
    /\ CanRLock(channelsMutex)
    /\ channelsMutex' = RLock(channelsMutex)
    /\ tasks' = Swap(t, [t EXCEPT !.pc = "saving"])
    /\ UNCHANGED <<client, indexVars, limiterVars, envVars, boots, callerVars>>

\* SaveCopy that copies only the channels the user is a member of
SaveCopyMembers(t) ==
    /\ t.pc = "saving"
    /\ tasks' = Swap(t, [t EXCEPT !.pc = "writefile",
                                  !.snap = [id \in {i \in DOMAIN channels : channels[i].IsMember}
                                               |-> channels[id]]])
    /\ lastChannelRefresh' = now
    /\ channelsMutex' = RUnlock(channelsMutex)
    /\ UNCHANGED <<client, indexVars, refreshCalls, refreshResetTime, envVars, boots,
                   callerVars>>

\* the copy of ap.channels, ap.lastChannelRefresh = time.Now(), RUnlock()
SaveCopy(t) ==
    /\ t.pc = "saving"
    /\ tasks' = Swap(t, [t EXCEPT !.pc = "writefile", !.snap = channels])
    /\ lastChannelRefresh' = now
    /\ channelsMutex' = RUnlock(channelsMutex)
    /\ UNCHANGED <<client, indexVars, refreshCalls, refreshResetTime, envVars, boots,
                   callerVars>>

\* WriteFile that takes the snapshot again when the file could not be
\* written
WriteFileRetries(t) ==
    /\ t.pc = "writefile"
    /\ \/ cacheFile' = [ok |-> TRUE, chans |-> t.snap] /\ tasks' = Drop(t)
       \/ UNCHANGED cacheFile /\ tasks' = Swap(t, [t EXCEPT !.pc = "save"])
    /\ UNCHANGED <<client, indexVars, channelsMutex, limiterVars, now, upstream,
                   horizon, taskCap, audit, fetched, allowed, boots, callerVars>>

\* json.MarshalIndent and ioutil.WriteFile, which may fail; the goroutine
\* ends.  The file keeps the copied channels; the order in which the range
\* over the map listed them is chosen where the file is read.
WriteFile(t) ==
    /\ t.pc = "writefile"
    /\ \/ cacheFile' = [ok |-> TRUE, chans |-> t.snap]
       \/ UNCHANGED cacheFile
    /\ tasks' = Drop(t)
    /\ UNCHANGED <<client, indexVars, channelsMutex, limiterVars, now, upstream,
                   horizon, taskCap, audit, fetched, allowed, boots, callerVars>>

----------------------------------------------------------------------------
(* GetChannelInfo *)

GciArgs == {C2, general}

\* the read section: the name is resolved and the cache is looked up
\* under RLock; a hit returns the cached channel, a miss goes on to the API
GciRead(channelIDOrName) ==
    /\ gci.pc = "idle"
    /\ CanRLock(channelsMutex)
    /\ LET channelID ==
             IF LooksLikeID(channelIDOrName) THEN channelIDOrName
             ELSE IF Has(channelNames, channelIDOrName)
                  THEN channelNames[channelIDOrName]
             ELSE IF Has(channelNames, ToLower(channelIDOrName))
                  THEN channelNames[ToLower(channelIDOrName)]
             ELSE channelIDOrName
       IN  IF Has(channels, channelID)
           THEN UNCHANGED gci
           ELSE gci' = [gci EXCEPT !.pc = "fetch", !.channelID = channelID]
    /\ UNCHANGED <<client, indexVars, channelsMutex, limiterVars, envVars, boots, tasks,
                   reader>>

\* client.GetConversationInfo(channelID): the error is returned, or the
\* channel with that id goes on to be cached
GciFetch ==
    /\ gci.pc = "fetch"
    /\ client = "set"
    /\ \/ gci' = [gci EXCEPT !.pc = "idle", !.channelID = EmptyStr]
       \/ \E info \in {e \in upstream.info : e.ID = gci.channelID} :
            gci' = [gci EXCEPT !.pc = "lock", !.info = info]
    /\ UNCHANGED <<client, indexVars, channelsMutex, limiterVars, envVars, boots, tasks,
                   reader>>

\* ap.channelsMutex.Lock(); ap.channels[channelID] = *info
GciStore ==
    /\ gci.pc = "lock"
    /\ CanLock(channelsMutex)
    /\ channelsMutex' = Lock(channelsMutex)
    /\ channels' = InfoID(channels, gci.channelID, gci.info)
    /\ gci' = [gci EXCEPT !.pc = "alias"]
    /\ UNCHANGED <<client, channelNames, limiterVars, envVars, boots, tasks, reader>>

\* GciAlias that returns without ap.channelsMutex.Unlock()
GciAliasKeepsLock ==
    /\ gci.pc = "alias"
    /\ channelNames' = InfoNames(channelNames, gci.info)
    /\ gci' = [pc |-> "idle", channelID |-> EmptyStr, info |-> Chan(EmptyStr, EmptyStr, FALSE)]
    /\ UNCHANGED <<client, channels, channelsMutex, limiterVars, envVars, boots, tasks,
                   reader>>

\* the name mappings of info, then ap.channelsMutex.Unlock()
GciAlias ==
    /\ gci.pc = "alias"
    /\ channelNames' = InfoNames(channelNames, gci.info)
    /\ channelsMutex' = Unlock(channelsMutex)
    /\ gci' = [pc |-> "idle", channelID |-> EmptyStr, info |-> Chan(EmptyStr, EmptyStr, FALSE)]
    /\ UNCHANGED <<client, channels, limiterVars, envVars, boots, tasks, reader>>

----------------------------------------------------------------------------
(* The read-only calls: ResolveChannelID (for an argument that is not of *)
(* identifier shape), GetCachedChannels, GetCacheInfo                    *)

ReadOps == {"ResolveChannelID", "GetCachedChannels", "GetCacheInfo"}

\* ap.channelsMutex.RLock()
ReadLock(op) ==
    /\ reader = "idle"
    /\ CanRLock(channelsMutex)
    /\ channelsMutex' = RLock(channelsMutex)
    /\ reader' = op
    /\ UNCHANGED <<client, indexVars, limiterVars, envVars, boots, tasks, gci>>

\* the deferred ap.channelsMutex.RUnlock() after the value is computed
ReadUnlock ==
    /\ reader # "idle"
    /\ channelsMutex' = RUnlock(channelsMutex)
    /\ reader' = "idle"
    /\ UNCHANGED <<client, indexVars, limiterVars, envVars, boots, tasks, gci>>

----------------------------------------------------------------------------
(* RefreshChannelCache *)

\* WindowExpired that ends the window at five minutes, not after them
WindowExpiredAtEnd(t, resetTime) == Sub(t, resetTime) >= Window

\* now.Sub(ap.refreshResetTime) > 5*time.Minute
WindowExpired(t, resetTime) == Sub(t, resetTime) > Window

\* MinWait without the backoff step
MinWaitFlat(calls) == BaseWait

\* minWait := 30*time.Second + time.Duration(ap.refreshCalls)*30*time.Second
MinWait(calls) == BaseWait + calls * StepWait

\* Denied without the cap on the calls of a window
DeniedNoCap(timeSinceLastRefresh, minWait, calls) == timeSinceLastRefresh < minWait

\* timeSinceLastRefresh < minWait || ap.refreshCalls >= 3
Denied(timeSinceLastRefresh, minWait, calls) ==
    timeSinceLastRefresh < minWait \/ calls >= MaxCallsPerWindow

\* retryAfter := minWait - timeSinceLastRefresh, 30 s when that is negative
RetryAfter(minWait, timeSinceLastRefresh) ==
    IF minWait - timeSinceLastRefresh < 0 THEN ClampRetry
    ELSE minWait - timeSinceLastRefresh

\* TimeSinceLastRefresh that measures from the start of the window
TimeSinceWindowStart ==
    IF WindowExpired(now, refreshResetTime) THEN 0 ELSE Sub(now, refreshResetTime)

\* timeSinceLastRefresh := now.Sub(ap.lastChannelRefresh)
TimeSinceLastRefresh == Sub(now, lastChannelRefresh)

\* Outcome that loses the count of the window when it denies
OutcomeForgets ==
    LET expired == WindowExpired(now, refreshResetTime)
        calls == IF expired THEN 0 ELSE refreshCalls
        minWait == MinWait(calls)
        timeSinceLastRefresh == Sub(now, lastChannelRefresh)
    IN  IF Denied(timeSinceLastRefresh, minWait, calls)
        THEN [Allowed |-> FALSE, LastRefresh |-> lastChannelRefresh,
              RetryAfter |-> RetryAfter(minWait, timeSinceLastRefresh),
              RefreshCount |-> 0]
        ELSE [Allowed |-> TRUE, LastRefresh |-> now, RetryAfter |-> 0,
              RefreshCount |-> calls + 1]

\* the RefreshResult a call returns in the present state: the window is
\* reset when it has expired, then the call is denied or allowed
Outcome ==
    LET expired == WindowExpired(now, refreshResetTime)
        calls == IF expired THEN 0 ELSE refreshCalls
        minWait == MinWait(calls)
        timeSinceLastRefresh == TimeSinceLastRefresh
    IN  IF Denied(timeSinceLastRefresh, minWait, calls)
        THEN [Allowed |-> FALSE, LastRefresh |-> lastChannelRefresh,
              RetryAfter |-> RetryAfter(minWait, timeSinceLastRefresh),
              RefreshCount |-> calls]
        ELSE [Allowed |-> TRUE, LastRefresh |-> now, RetryAfter |-> 0,
              RefreshCount |-> calls + 1]

\* ResetTime that moves the start of the window at every call
ResetTimeAlways == now

\* ap.refreshResetTime after the window test of a call at this instant
ResetTime == IF WindowExpired(now, refreshResetTime) THEN now ELSE refreshResetTime

\* the Allowed results so far, once a call has returned result: the time of
\* the call and the start of the window it was counted in
Recorded(result) ==
    IF audit /\ result.Allowed
    THEN Append(allowed, [at |-> now, window |-> ResetTime])
    ELSE allowed

\* RefreshChannelCache that records the time of a denied call too
RefreshChannelCacheTouches ==
    /\ client = "set"
    /\ CanLock(channelsMutex)
    /\ refreshResetTime' = IF WindowExpired(now, refreshResetTime)
                           THEN now ELSE refreshResetTime
    /\ refreshCalls' = Outcome.RefreshCount
    /\ lastChannelRefresh' = now
    /\ IF Outcome.Allowed
       THEN /\ BagCardinality(tasks) < taskCap
            /\ tasks' = Launch(tasks)
       ELSE UNCHANGED tasks
    /\ allowed' = Recorded(Outcome)
    /\ UNCHANGED <<client, indexVars, channelsMutex, now, cacheFile, upstream,
                   horizon, taskCap, audit, fetched, boots, reader, gci>>

\* the whole call runs under ap.channelsMutex.Lock() and does not block;
\* a call before the client exists would launch a goroutine on a nil client
RefreshChannelCache ==
    /\ client = "set"
    /\ CanLock(channelsMutex)
    /\ refreshResetTime' = ResetTime
    /\ refreshCalls' = Outcome.RefreshCount
    /\ IF Outcome.Allowed
       THEN /\ BagCardinality(tasks) < taskCap
            /\ tasks' = Launch(tasks)
            /\ lastChannelRefresh' = now
       ELSE UNCHANGED <<lastChannelRefresh, tasks>>
    /\ allowed' = Recorded(Outcome)
    /\ UNCHANGED <<client, indexVars, channelsMutex, now, cacheFile, upstream,
                   horizon, taskCap, audit, fetched, boots, reader, gci>>

----------------------------------------------------------------------------
(* The clock *)

Tick(d) ==
    /\ now + d <= horizon
    /\ now' = now + d
    /\ UNCHANGED <<client, indexVars, channelsMutex, limiterVars, cacheFile, upstream,
                   horizon, taskCap, audit, fetched, allowed, boots, tasks, callerVars>>

----------------------------------------------------------------------------
(* The system *)

\* no file, or one that cannot be read or parsed
NoFile == [ok |-> FALSE, chans |-> EmptyMap]

\* the channel cache file a process may find when it starts
InitialFiles == {NoFile, [ok |-> TRUE, chans |-> (C1 :> Chan(C1, general, TRUE))]}

\* the state New() returns, at process time 0
InitState ==
    /\ client = "nil"
    /\ channels = EmptyMap
    /\ channelNames = EmptyMap
    /\ channelsMutex = Unlocked
    /\ lastChannelRefresh = ZeroTime
    /\ refreshCalls = 0
    /\ refreshResetTime = ZeroTime
    /\ now = 0
    /\ boots = [b \in BootIds |-> [pc |-> "idle", data |-> [ok |-> FALSE, chans |-> <<>>]]]
    /\ tasks = EmptyBag
    /\ reader = "idle"
    /\ gci = [pc |-> "idle", channelID |-> EmptyStr, info |-> Chan(EmptyStr, EmptyStr, FALSE)]
    /\ fetched = {}
    /\ allowed = <<>>

\* Slack answers with the channels of RichUpstream and may fail
Init ==
    /\ InitState
    /\ cacheFile \in InitialFiles
    /\ upstream = RichUpstream
    /\ horizon = MaxTime
    /\ taskCap = MaxTasks
    /\ audit = FALSE

Next ==
    \/ \E b \in BootIds : ProvideCall(b)
    \/ \E b \in BootIds : ProvideBoot(b)
    \/ \E b \in BootIds : Bootstrap(b)
    \/ \E b \in BootIds : LoadLock(b)
    \/ \E b \in BootIds : LoadFill(b)
    \/ \E t \in Running : P1Fetch(t)
    \/ \E t \in Running : P1Lock(t)
    \/ \E t \in Running : P1Store(t)
    \/ \E t \in Running : P1Alias(t)
    \/ \E t \in Running : P1Unlock(t)
    \/ \E t \in Running : P2Fetch(t)
    \/ \E t \in Running : P2Lock(t)
    \/ \E t \in Running : P2Store(t)
    \/ \E t \in Running : P2Alias(t)
    \/ \E t \in Running : P2Unlock(t)
    \/ \E t \in Running : SaveRLock(t)
    \/ \E t \in Running : SaveCopy(t)
    \/ \E t \in Running : WriteFile(t)
    \/ \E x \in GciArgs : GciRead(x)
    \/ GciFetch
    \/ GciStore
    \/ GciAlias
    \/ RefreshChannelCache
    \/ \E d \in TickSteps : Tick(d)

\* the cache: start-up, populations, the fallback and manual refreshes
Spec == Init /\ [][Next]_vars

----------------------------------------------------------------------------
(* The cache with its readers *)

\* Slack answers with one page of two channels and may fail or rate limit
SmallUpstream ==
    [member |-> {<<Chan(C1, general, FALSE), Chan(C2, random, FALSE)>>},
     all    |-> {<<Chan(C1, general, FALSE), Chan(C2, random, FALSE)>>},
     info   |-> {Chan(C2, random, FALSE)},
     fails  |-> TRUE,
     limits |-> TRUE]

InitLock ==
    /\ InitState
    /\ cacheFile \in InitialFiles
    /\ upstream = SmallUpstream
    /\ horizon = MaxTime
    /\ taskCap = MaxTasks
    /\ audit = FALSE

NextLock ==
    \/ \E b \in BootIds : ProvideCall(b)
    \/ \E b \in BootIds : ProvideBoot(b)
    \/ \E b \in BootIds : Bootstrap(b)
    \/ \E b \in BootIds : LoadLock(b)
    \/ \E b \in BootIds : LoadFill(b)
    \/ \E t \in Running : P1Fetch(t)
    \/ \E t \in Running : P1Wake(t)
    \/ \E t \in Running : P1Lock(t)
    \/ \E t \in Running : P1Store(t)
    \/ \E t \in Running : P1Alias(t)
    \/ \E t \in Running : P1Unlock(t)
    \/ \E t \in Running : P2Fetch(t)
    \/ \E t \in Running : P2Wake(t)
    \/ \E t \in Running : P2Lock(t)
    \/ \E t \in Running : P2Store(t)
    \/ \E t \in Running : P2Alias(t)
    \/ \E t \in Running : P2Unlock(t)
    \/ \E t \in Running : SaveRLock(t)
    \/ \E t \in Running : SaveCopy(t)
    \/ \E t \in Running : WriteFile(t)
    \/ \E x \in GciArgs : GciRead(x)
    \/ GciFetch
    \/ GciStore
    \/ GciAlias
    \/ \E op \in ReadOps : ReadLock(op)
    \/ ReadUnlock
    \/ RefreshChannelCache
    \/ \E d \in TickSteps : Tick(d)

SpecLock == InitLock /\ [][NextLock]_vars

----------------------------------------------------------------------------
(* The rate limiter *)

\* Slack has no channels: every page is empty; a call may fail
QuietUpstream ==
    [member |-> {<<>>}, all |-> {<<>>}, info |-> {}, fails |-> TRUE, limits |-> FALSE]

InitRL ==
    /\ InitState
    /\ cacheFile \in InitialFiles
    /\ upstream = QuietUpstream
    /\ horizon = MaxTimeRL
    /\ taskCap = MaxTasksRL
    /\ audit = FALSE

NextRL ==
    \/ \E b \in BootIds : ProvideCall(b)
    \/ \E b \in BootIds : ProvideBoot(b)
    \/ \E b \in BootIds : Bootstrap(b)
    \/ \E b \in BootIds : LoadLock(b)
    \/ \E b \in BootIds : LoadFill(b)
    \/ \E t \in Running : P1Fetch(t)
    \/ \E t \in Running : P1Lock(t)
    \/ \E t \in Running : P1Unlock(t)
    \/ \E t \in Running : P2Fetch(t)
    \/ \E t \in Running : P2Lock(t)
    \/ \E t \in Running : P2Unlock(t)
    \/ \E t \in Running : SaveRLock(t)
    \/ \E t \in Running : SaveCopy(t)
    \/ \E t \in Running : WriteFile(t)
    \/ RefreshChannelCache
    \/ \E d \in TickSteps : Tick(d)

SpecRL == InitRL /\ [][NextRL]_vars

----------------------------------------------------------------------------
(* The start-up alone: no manual refresh, no fallback *)

\* the files a process may find: none, or a snapshot of two channels, with
\* two names or with one
StartFiles ==
    {NoFile,
     [ok |-> TRUE, chans |-> (C1 :> Chan(C1, general, TRUE)) @@ (C2 :> Chan(C2, random, FALSE))],
     [ok |-> TRUE, chans |-> (C1 :> Chan(C1, general, TRUE)) @@ (C2 :> Chan(C2, general, FALSE))]}

\* Slack has no channels, or up to two of them over the pages of both
\* phases; a call may fail
StartUpstream ==
    [member |-> {<<>>, <<Chan(C1, general, FALSE)>>},
     all    |-> {<<>>, <<Chan(C1, general, FALSE), Chan(C2, general, FALSE)>>,
                 <<Chan(C2, random, FALSE)>>},
     info   |-> {},
     fails  |-> TRUE,
     limits |-> FALSE]

InitStart ==
    /\ InitState
    /\ cacheFile \in StartFiles
    /\ upstream = StartUpstream
    /\ horizon = MaxTime
    /\ taskCap = MaxTasksRL
    /\ audit = TRUE

NextStart ==
    \/ \E b \in BootIds : ProvideCall(b)
    \/ \E b \in BootIds : ProvideBoot(b)
    \/ \E b \in BootIds : Bootstrap(b)
    \/ \E b \in BootIds : LoadLock(b)
    \/ \E b \in BootIds : LoadFill(b)
    \/ \E t \in Running : P1Fetch(t)
    \/ \E t \in Running : P1Lock(t)
    \/ \E t \in Running : P1Store(t)
    \/ \E t \in Running : P1Alias(t)
    \/ \E t \in Running : P1Unlock(t)
    \/ \E t \in Running : P2Fetch(t)
    \/ \E t \in Running : P2Lock(t)
    \/ \E t \in Running : P2Store(t)
    \/ \E t \in Running : P2Alias(t)
    \/ \E t \in Running : P2Unlock(t)
    \/ \E t \in Running : SaveRLock(t)
    \/ \E t \in Running : SaveCopy(t)
    \/ \E t \in Running : WriteFile(t)
    \/ \E op \in ReadOps : ReadLock(op)
    \/ ReadUnlock
    \/ \E d \in TickSteps : Tick(d)

SpecStart == InitStart /\ [][NextStart]_vars

----------------------------------------------------------------------------
(* Name resolution: channels and DMs whose aliases differ in letter case *)

\* Slack answers Phase 1 with a channel and the DMs of three users, two of
\* whom have the real name of one and the user name of the other up to
\* letter case; Phase 2 has nothing to add
NamesUpstream ==
    [member |-> {<<Chan(C1, general, FALSE), IM(D2, U2, FALSE)>>,
                 <<IM(D3, U3, FALSE)>>, <<IM(D1, U1, FALSE)>>},
     all    |-> {<<>>},
     info   |-> {},
     fails  |-> TRUE,
     limits |-> FALSE]

\* the arguments ResolveChannelID is called with
Probes == {C1, general, General, random, rob, Rob, ROB, bob, dave, Dave}

InitNames ==
    /\ InitState
    /\ cacheFile = NoFile
    /\ upstream = NamesUpstream
    /\ horizon = MaxTime
    /\ taskCap = MaxTasksRL
    /\ audit = FALSE

NextNames ==
    \/ \E b \in BootIds : ProvideCall(b)
    \/ \E b \in BootIds : ProvideBoot(b)
    \/ \E b \in BootIds : Bootstrap(b)
    \/ \E b \in BootIds : LoadLock(b)
    \/ \E b \in BootIds : LoadFill(b)
    \/ \E t \in Running : P1Fetch(t)
    \/ \E t \in Running : P1Lock(t)
    \/ \E t \in Running : P1Store(t)
    \/ \E t \in Running : P1Alias(t)
    \/ \E t \in Running : P1Unlock(t)
    \/ \E t \in Running : P2Fetch(t)
    \/ \E t \in Running : P2Lock(t)
    \/ \E t \in Running : P2Unlock(t)
    \/ \E t \in Running : SaveRLock(t)
    \/ \E t \in Running : SaveCopy(t)
    \/ \E t \in Running : WriteFile(t)
    \/ \E op \in ReadOps : ReadLock(op)
    \/ ReadUnlock
    \/ \E d \in TickSteps : Tick(d)

SpecNames == InitNames /\ [][NextNames]_vars

----------------------------------------------------------------------------
(* Properties *)

\* a step of the all-scope ingest loop of some population
Phase2Step == \E t \in Running : P2Store(t) \/ P2Alias(t)

C2_NameClaimEveryPath ==
    [][\A n \in DOMAIN channelNames :
          Has(channelNames', n) => channelNames'[n] = channelNames[n]]_vars

\* C2 amended. Name-claim stability of the all-scope ingest: a Phase 2
\* step leaves every existing alias, and what ResolveChannelID returns for
\* it, as it was.
C2_NameClaimPhase2 ==
    [][Phase2Step =>
         \A n \in DOMAIN channelNames :
            /\ Has(channelNames', n) /\ channelNames'[n] = channelNames[n]
            /\ ResolveChannelID(n)' = ResolveChannelID(n)]_vars

\* Phase 2 has ingested C2 under the name that C1 holds
C2_Witness ==
    \E t \in Running :
       /\ t.pc = "p2ingest" /\ t.i > 1 /\ t.sub = 0
       /\ t.page[t.i - 1] = Chan(C2, general, FALSE)
       /\ Has(channels, C2) /\ channels[C2] = Chan(C2, general, FALSE)
       /\ Has(channelNames, general) /\ channelNames[general] = C1
       /\ ResolveChannelID(general) = C1

\* C3. At most one population is running at any time.
C3_OnePopulation == BagCardinality(tasks) <= 1

\* the call is possible: the client exists
Callable == client = "set"

\* C4. The call counter never exceeds maxCallsPerWindow; an allowed call
\* adds one to the counter of the window it falls in; and while the
\* counter is at the maximum and the window has not expired, a call is
\* denied.
C4_WindowCap ==
    [][/\ refreshCalls' <= MaxCallsPerWindow
       /\ RefreshChannelCache =>
            /\ (Outcome.Allowed /\ refreshResetTime' = refreshResetTime)
                  => refreshCalls' = refreshCalls + 1
            /\ (Outcome.Allowed /\ refreshResetTime' # refreshResetTime)
                  => refreshCalls' = 1
            /\ (refreshCalls >= MaxCallsPerWindow /\ refreshResetTime' = refreshResetTime)
                  => (~Outcome.Allowed /\ tasks' = tasks)]_vars

\* three refreshes were allowed in the window and a further call is denied
C4_Witness ==
    /\ Callable
    /\ refreshCalls = MaxCallsPerWindow
    /\ ~WindowExpired(now, refreshResetTime)
    /\ Sub(now, lastChannelRefresh) >= MinWait(refreshCalls)
    /\ ~Outcome.Allowed

\* C5 as stated. A denied call changes nothing.
C5_DeniedChangesNothing ==
    [][(RefreshChannelCache /\ ~Outcome.Allowed) =>
          UNCHANGED <<lastChannelRefresh, refreshCalls, refreshResetTime, tasks>>]_vars

\* C5 amended. A denied call leaves lastChannelRefresh as it was and
\* launches nothing; the counter and the window start change only by the
\* reset of an expired window.
C5_DeniedOnlyResets ==
    [][(RefreshChannelCache /\ ~Outcome.Allowed) =>
          /\ UNCHANGED <<lastChannelRefresh, tasks>>
          /\ IF WindowExpired(now, refreshResetTime)
             THEN refreshCalls' = 0 /\ refreshResetTime' = now
             ELSE UNCHANGED <<refreshCalls, refreshResetTime>>]_vars

\* the window was reset at this instant by a call that was denied
C5_Witness ==
    /\ Callable
    /\ refreshResetTime = now
    /\ refreshCalls = 0
    /\ ~Outcome.Allowed

DeniedTwice ==
    /\ Callable
    /\ ~WindowExpired(now, refreshResetTime)
    /\ ~WindowExpired(now', refreshResetTime')
    /\ refreshResetTime' = refreshResetTime
    /\ ~Outcome.Allowed
    /\ ~Outcome'.Allowed

\* C7 as stated. Within one window the RetryAfter of a denial is never
\* smaller than that of an earlier denial.
C7_RetryAfterMonotone ==
    [][DeniedTwice => Outcome'.RetryAfter >= Outcome.RetryAfter]_vars

\* C7 amended. Within one window the time a denial tells the caller to come
\* back at, the call time plus RetryAfter, is never earlier than that of
\* an earlier denial.
C7_RetryTimeMonotone ==
    [][DeniedTwice => now' + Outcome'.RetryAfter >= now + Outcome.RetryAfter]_vars

\* time has passed since the last refresh of the window and the RetryAfter
\* of a denial has shrunk below the minimum wait
C7_Witness ==
    /\ Callable
    /\ ~WindowExpired(now, refreshResetTime)
    /\ refreshCalls >= 1
    /\ now > lastChannelRefresh
    /\ ~Outcome.Allowed
    /\ Outcome.RetryAfter > 0
    /\ Outcome.RetryAfter < MinWait(refreshCalls)

\* the goroutines inside a write section of the mutex
Writers ==
    Cardinality({b \in BootIds : boots[b].pc = "loading"})
    + BagCardinality([t \in {u \in Running : u.pc \in {"p1ingest", "p2ingest"}} |-> tasks[t]])
    + (IF gci.pc = "alias" THEN 1 ELSE 0)

\* C8. A read-only call waits for nothing but a write section: whenever
\* the mutex is write-held, its holder is inside the loop over one page,
\* the start-up load or the cache write of the fallback, none of which
\* fetches or sleeps; a goroutine that waits for Slack or sleeps holds
\* nothing, and a reader can take the mutex whenever it is not write-held.
C8_ReadersWaitOnlyForIngest ==
    /\ channelsMutex.w => Writers = 1
    /\ ~channelsMutex.w => Writers = 0
    /\ (~channelsMutex.w /\ reader = "idle") => ENABLED ReadLock("ResolveChannelID")
    /\ (~channelsMutex.w /\ reader = "idle") => ENABLED ReadLock("GetCachedChannels")

\* ResolveChannelID runs on an empty cache while one population sleeps for
\* a rate limit and the other has a page fetch in flight
C8_Witness ==
    /\ reader = "ResolveChannelID"
    /\ channels = EmptyMap
    /\ \E t \in Running : t.pc = "p1sleep"
    /\ \E t \in Running : t.pc = "p1fetch"

\* some writer has applied a part of what it applies in one write section
PartlyApplied ==
    \/ \E t \in Running :
          /\ t.pc \in {"p1ingest", "p2ingest"}
          /\ \/ t.sub = 1
             \/ t.i > 1 /\ t.i <= Len(t.page)
    \/ gci.pc = "alias"
    \/ \E b \in BootIds : boots[b].pc = "loading" /\ boots[b].data.ok

\* C9. A page is ingested atomically for the readers: no read section of
\* ResolveChannelID, GetCachedChannels or GetCacheInfo, and no read of
\* GetChannelInfo, runs while a writer has applied only a part.
C9_ReadersSeeWholePages ==
    /\ [](reader # "idle" => ~PartlyApplied)
    /\ [][(\E x \in GciArgs : GciRead(x)) => ~PartlyApplied]_vars

\* a reader is in its read section while a population waits for the mutex
\* with a page of two channels to ingest
C9_Witness ==
    /\ reader = "GetCachedChannels"
    /\ \E t \in Running : t.pc = "p1lock" /\ Len(t.page) = 2

\* C10. Every alias of the name map points to an id of the id map.
C10_AliasTargetsExist ==
    \A n \in DOMAIN channelNames : Has(channels, channelNames[n])

\* the start-up path is over, both names have an alias, the member-scoped
\* ingest has pointed general to C2, and both channels are cached
C10_Witness ==
    /\ boots["main"].pc = "done"
    /\ Has(channelNames, general) /\ channelNames[general] = C2
    /\ Has(channelNames, random)
    /\ Has(channels, C1) /\ Has(channels, C2)

\* no goroutine is inside a write section of the index
Quiet == ~channelsMutex.w

\* C11 as stated. Every cached channel with a name has an alias that
\* resolves to its own id (looked at outside the write sections).
C11_EveryEntryHasOwnAlias ==
    Quiet => \A id \in DOMAIN channels :
                channels[id].Name # EmptyStr
                   => \E n \in DOMAIN channelNames : channelNames[n] = id

\* C11 amended. Outside the write sections the name and the lower-cased
\* name of every cached channel are keys of the name map, and each points
\* to a cached id, which need not be the channel's own.
C11_EveryNameHasAlias ==
    Quiet => \A id \in DOMAIN channels :
                channels[id].Name # EmptyStr
                   => /\ Has(channelNames, channels[id].Name)
                      /\ Has(channelNames, ToLower(channels[id].Name))
                      /\ Has(channels, channelNames[channels[id].Name])
                      /\ Has(channels, channelNames[ToLower(channels[id].Name)])

\* two channels are cached under one name and the alias points to the
\* first; the second has no alias of its own
C11_Witness ==
    /\ Quiet
    /\ Has(channels, C1) /\ channels[C1].Name = general
    /\ Has(channels, C2) /\ channels[C2].Name = general
    /\ Has(channelNames, general) /\ channelNames[general] = C1
    /\ \A n \in DOMAIN channelNames : channelNames[n] # C2

\* the index as one value
Index == [chs |-> channels, names |-> channelNames]

\* C12. Idempotent re-ingest: at the end of the ingest of a page, with the
\* mutex still held, ingesting the same page again with the same scope
\* gives the index that is there.
C12_ReingestIdempotent ==
    [][/\ \A t \in Running : P1Unlock(t) => IngestMember(Index, t.page, 1) = Index
       /\ \A t \in Running : P2Unlock(t) => IngestAll(Index, t.page, 1) = Index]_vars

\* a member-scoped page has been ingested that took the name of a cached
\* channel, and then an all-scoped page of two channels
C12_Witness ==
    \E t \in Running :
       /\ t.pc = "p2ingest" /\ t.i > Len(t.page) /\ Len(t.page) = 2
       /\ Has(channels, C1) /\ channels[C1].IsMember
       /\ Has(channels, C2) /\ channels[C2].IsMember
       /\ channelNames[general] = C2

\* the start-up path has found no snapshot it could load
ColdStarted == boots["main"].pc = "done" /\ ~boots["main"].data.ok

\* the population is past both phases
Completed(t) == t.pc \in {"save", "saving", "writefile"}

\* C13. Cold start: as long as no snapshot was loaded and Slack has
\* returned no channel, GetCachedChannels is empty; and when the start-up
\* population of a cold start is past both phases, ChannelCount is the
\* number of distinct channel ids Slack returned over all pages.
C13_ColdStartCount ==
    /\ (~boots["main"].data.ok /\ fetched = {}) => GetCachedChannels = {}
    /\ \A t \in Running :
          (ColdStarted /\ Completed(t))
             => GetCacheInfo.ChannelCount = Cardinality(fetched)

\* a cold start whose population is past both phases, after Slack returned
\* C1 in Phase 1 and C1 and C2 in Phase 2
C13_Witness ==
    /\ ColdStarted
    /\ \E t \in Running : t.pc = "writefile"
    /\ fetched = {C1, C2}
    /\ GetCacheInfo.ChannelCount = 2
    /\ channels[C1].IsMember /\ ~channels[C2].IsMember

\* the ids of the entries of a snapshot that have the name n
SnapshotIDs(cachedChannels, n) ==
    {cachedChannels[i].ID : i \in {j \in DOMAIN cachedChannels : cachedChannels[j].Name = n}}

\* the snapshot was loaded and Slack has returned no channel yet
WarmOnly == boots["main"].pc = "done" /\ boots["main"].data.ok /\ fetched = {}

\* C14. Warm start: from the load of a snapshot until a page with channels
\* comes back, ResolveChannelID of a name of the snapshot returns the id of
\* a snapshot entry with that name; the load sets lastChannelRefresh to the
\* time of the load and launches a population.
C14_WarmStartResolves ==
    /\ [](WarmOnly =>
            \A i \in DOMAIN boots["main"].data.chans :
               LET n == boots["main"].data.chans[i].Name
               IN  n # EmptyStr
                     => ResolveChannelID(n) \in SnapshotIDs(boots["main"].data.chans, n))
    /\ [][\A b \in BootIds :
            (LoadFill(b) /\ boots[b].data.ok)
               => /\ lastChannelRefresh' = now
                  /\ tasks' = tasks (+) SetToBag({NewTask})]_vars

\* the snapshot with two channels of one name is loaded, the name resolves
\* to one of them, and the population is at its first fetch
C14_Witness ==
    /\ WarmOnly
    /\ Len(boots["main"].data.chans) = 2
    /\ ResolveChannelID(general) = C2
    /\ lastChannelRefresh = now /\ now > 0
    /\ \E t \in Running : t.pc = "p1fetch"
    /\ reader = "ResolveChannelID"

\* C15. Without a snapshot that can be read and parsed the load is a cold
\* start: it ends without an error, leaves both maps empty and
\* lastChannelRefresh as it was, and launches one population.
C15_NoSnapshotColdStart ==
    [][\A b \in BootIds :
         (LoadFill(b) /\ ~boots[b].data.ok)
            => /\ channels' = EmptyMap /\ channelNames' = EmptyMap
               /\ lastChannelRefresh' = lastChannelRefresh
               /\ tasks' = tasks (+) SetToBag({NewTask})
               /\ boots'[b].pc = "done"]_vars

\* a cold start is over: the maps are empty, lastChannelRefresh is the zero
\* time, and the one population is at its first fetch
C15_Witness ==
    /\ ColdStarted
    /\ channels = EmptyMap /\ channelNames = EmptyMap
    /\ lastChannelRefresh = ZeroTime
    /\ tasks = SetToBag({NewTask})

\* C16. Entries are never removed: no step takes an id out of the id map,
\* and ChannelCount never decreases.
C16_NeverRemoved ==
    [][/\ \A id \in DOMAIN channels : Has(channels', id)
       /\ GetCacheInfo'.ChannelCount >= GetCacheInfo.ChannelCount]_vars

\* C17. ResolveChannelID returns its argument when that begins with C, D
\* or G; else the id mapped to the argument as it is; else the id mapped to
\* the lower-cased argument; else the argument.  The call changes neither
\* the id map, nor the name map, nor the refresh state.
C17_ResolveContract ==
    /\ [](\A x \in Probes :
            ResolveChannelID(x) =
               IF x[1] \in {"C", "D", "G"} THEN x
               ELSE IF x \in DOMAIN channelNames THEN channelNames[x]
               ELSE IF ToLower(x) \in DOMAIN channelNames THEN channelNames[ToLower(x)]
               ELSE x)
    /\ [][(ReadLock("ResolveChannelID") \/ (reader = "ResolveChannelID" /\ ReadUnlock))
             => UNCHANGED <<channels, channelNames, lastChannelRefresh, refreshCalls,
                            refreshResetTime, tasks>>]_vars

\* ResolveChannelID runs while the exact alias and the lower-cased alias of
\* one spelling point to two DMs, and an unknown name comes back as it is
C17_Witness ==
    /\ reader = "ResolveChannelID"
    /\ ResolveChannelID(Rob) = D2
    /\ ResolveChannelID(rob) = D3
    /\ ResolveChannelID(ROB) = D3
    /\ ResolveChannelID(C1) = C1
    /\ ResolveChannelID(random) = random

\* C18 as stated. Every letter-case variant of the name of a cached
\* channel resolves to the id the name resolves to.
C18_CaseInsensitive ==
    Quiet =>
       \A id \in DOMAIN channels, v \in Probes :
          (channels[id].Name # EmptyStr /\ ToLower(v) = ToLower(channels[id].Name))
             => ResolveChannelID(v) = ResolveChannelID(channels[id].Name)

\* C18 amended. A letter-case variant of an alias that does not begin with
\* a capital C, D or G and is not an alias itself resolves to the id the
\* lower-cased alias is mapped to.
C18_CaseFolded ==
    \A n \in DOMAIN channelNames, v \in Probes :
       (ToLower(v) = ToLower(n) /\ ~LooksLikeID(v) /\ ~Has(channelNames, v))
          => /\ Has(channelNames, ToLower(n))
             /\ ResolveChannelID(v) = channelNames[ToLower(n)]

\* the upper-case spelling of a real name resolves through the lower-cased
\* alias, to another DM than the real name itself; the capitalised name of
\* the cached channel comes back as it is
C18_Witness ==
    /\ Quiet
    /\ Has(channels, C1) /\ channels[C1].Name = general
    /\ ResolveChannelID(general) = C1
    /\ ResolveChannelID(General) = General
    /\ Has(channelNames, Rob) /\ channelNames[Rob] = D2
    /\ ~Has(channelNames, ROB)
    /\ ResolveChannelID(ROB) = D3

Observed(t) == t.page[t.i]

\* the fields of a channel other than IsMember
Fields(ch) == [ch EXCEPT !.IsMember = TRUE]

\* C20 as stated. When an ingest of either scope observes a cached id, the
\* fields of the cached entry other than IsMember become the observed ones.
C20_UpdatedInPlace ==
    [][\A t \in Running :
          ((P1Store(t) \/ P2Store(t)) /\ Has(channels, Observed(t).ID))
             => Fields(channels'[Observed(t).ID]) = Fields(Observed(t))]_vars

\* C20 amended. The member-scoped ingest replaces a cached entry by the
\* observed channel with IsMember set; the all-scoped ingest leaves a
\* cached entry as it is.
C20_UpdatedByPhase1Only ==
    [][\A t \in Running :
          /\ P1Store(t) =>
                channels'[Observed(t).ID] = [Observed(t) EXCEPT !.IsMember = TRUE]
          /\ (P2Store(t) /\ Has(channels, Observed(t).ID)) => channels' = channels]_vars

\* Phase 2 has gone past C2, observed under the name random, and the cache
\* still has it under the name general, as member
C20_Witness ==
    \E t \in Running :
       /\ t.pc = "p2ingest" /\ t.i > 2
       /\ t.page[2] = Chan(C2, random, FALSE)
       /\ Has(channels, C2) /\ channels[C2] = Chan(C2, general, TRUE)

----------------------------------------------------------------------------
(* The rate limiter with the history of its Allowed results *)

InitWindow ==
    /\ InitState
    /\ cacheFile \in InitialFiles
    /\ upstream = QuietUpstream
    /\ horizon = MaxTimeRL
    /\ taskCap = MaxTasksRL
    /\ audit = TRUE

SpecWindow == InitWindow /\ [][NextRL]_vars

\* C21 as stated. The window is rolling: no four Allowed results lie
\* within a span of five minutes.
C21_RollingWindow ==
    \A i \in DOMAIN allowed, j \in DOMAIN allowed :
        j = i + MaxCallsPerWindow => allowed[j].at - allowed[i].at >= Window

\* C21 amended. The window is fixed: it starts at the first call that comes
\* more than five minutes after the start of the window before it; at most
\* three Allowed results are counted in one window, each within five
\* minutes of its start.
C21_FixedWindow ==
    \A i \in DOMAIN allowed :
        /\ Cardinality({j \in DOMAIN allowed : allowed[j].window = allowed[i].window})
              <= MaxCallsPerWindow
        /\ allowed[i].at >= allowed[i].window
        /\ allowed[i].at <= allowed[i].window + Window
        /\ \A j \in DOMAIN allowed :
              (i < j /\ allowed[j].window # allowed[i].window)
                 => allowed[j].window - allowed[i].window > Window

\* three refreshes of one window and the first of the next one, all four
\* within less than five minutes
C21_Witness ==
    /\ Len(allowed) = MaxCallsPerWindow + 1
    /\ allowed[1].window = allowed[MaxCallsPerWindow].window
    /\ allowed[MaxCallsPerWindow + 1].window # allowed[1].window
    /\ allowed[MaxCallsPerWindow + 1].at - allowed[1].at < Window

\* what a caller can observe: the results of the read-only calls and of
\* RefreshChannelCache, and whether the mutex is free
CallerView ==
    [resolved |-> [x \in Probes |-> ResolveChannelID(x)],
     cached   |-> GetCachedChannels,
     info     |-> GetCacheInfo,
     refresh  |-> Outcome,
     mutex    |-> channelsMutex]

\* C22. A fetch that fails for another reason than a rate limit ends the
\* phase only: after Phase 1 the goroutine goes on with the first page of
\* Phase 2, after Phase 2 it ends; the step of a fetch changes neither the
\* id map nor the name map nor the snapshot file, and nothing a caller can
\* observe.
C22_ErrorsAbsorbed ==
    [][\A t \in Running :
          /\ P1Fetch(t) =>
                \E u \in BagToSet(tasks') :
                   /\ tasks' = Swap(t, u)
                   /\ u.pc \in {"p1sleep", "p1lock", "p2fetch"}
                   /\ u.pc = "p2fetch" => u.cursor = 0
          /\ P2Fetch(t) =>
                \/ tasks' = Drop(t)
                \/ \E u \in BagToSet(tasks') :
                      tasks' = Swap(t, u) /\ u.pc \in {"p2sleep", "p2lock"}
          /\ (P1Fetch(t) \/ P2Fetch(t)) =>
                /\ UNCHANGED <<channels, channelNames, cacheFile, client, reader, gci>>
                /\ CallerView' = CallerView]_vars

\* a cold start whose population has ended without the snapshot step,
\* after Phase 2 had returned a page: the channels of the page are cached
C22_Witness ==
    /\ ColdStarted
    /\ tasks = EmptyBag
    /\ lastChannelRefresh = ZeroTime
    /\ ~cacheFile.ok
    /\ fetched = {C1, C2}
    /\ DOMAIN channels = {C1, C2}
    /\ ResolveChannelID(general) \in {C1, C2}

\* the goroutine sleeps after a rate-limited fetch
Sleeping(t) == t.pc \in {"p1sleep", "p2sleep"}

\* the fetch a sleeping goroutine repeats when it wakes
Retry(t) == [t EXCEPT !.pc = IF t.pc = "p1sleep" THEN "p1fetch" ELSE "p2fetch",
                      !.wake = 0]

\* C23. Rate limit: a goroutine goes to sleep only from a fetch, for
\* the RetryAfter of the answer, with its cursor and both maps as they
\* were; it leaves the sleep only when that time has passed, and then to
\* fetch with the same cursor, again with both maps as they were.
C23_RetrySameCursor ==
    [][/\ \A u \in BagToSet(tasks') :
             (Sleeping(u) /\ CopiesIn(u, tasks') > CopiesIn(u, tasks)) =>
                /\ \E t \in Running :
                      /\ t.pc = (IF u.pc = "p1sleep" THEN "p1fetch" ELSE "p2fetch")
                      /\ tasks' = Swap(t, u)
                      /\ u = [t EXCEPT !.pc = u.pc, !.wake = u.wake]
                /\ u.wake - now \in RetryAfters
                /\ UNCHANGED <<channels, channelNames, now>>
       /\ \A t \in Running :
             (Sleeping(t) /\ CopiesIn(t, tasks') < CopiesIn(t, tasks)) =>
                /\ now >= t.wake
                /\ tasks' = Swap(t, Retry(t))
                /\ Retry(t).cursor = t.cursor
                /\ UNCHANGED <<channels, channelNames>>]_vars

\* Phase 2 was rate limited when it asked for its second page, the time of
\* RetryAfter has passed, and the goroutine is about to ask for that page
\* again; the first page is in the cache
C23_Witness ==
    \E t \in Running :
       /\ t.pc = "p2sleep"
       /\ t.cursor = 1
       /\ t.wake \in RetryAfters
       /\ now >= t.wake
       /\ DOMAIN channels = {C1, C2}
       /\ ENABLED P2Wake(t)

\* the goroutine u is at pc after the step and was not before it
Arrives(u, pc) == u.pc = pc /\ CopiesIn(u, tasks') > CopiesIn(u, tasks)

\* Phase 2 has ingested the page whose next cursor is empty
ChainEnded(t) == t.pc = "p2ingest" /\ t.i > Len(t.page) /\ t.next = 0

\* C24. The snapshot step is entered exactly from the end of the cursor
\* chain of Phase 2; the copy it takes under the read lock is the whole id
\* map of that instant; the file changes only when the goroutine that
\* holds such a copy writes it, and then to that copy; a goroutine whose
\* Phase 2 fetch fails ends without writing and leaves the file as it was.
C24_SnapshotOnCompletion ==
    [][/\ \A u \in BagToSet(tasks') :
             /\ Arrives(u, "save") =>
                   \E t \in Running : ChainEnded(t) /\ tasks' = Swap(t, u)
             /\ Arrives(u, "saving") =>
                   \E t \in Running : t.pc = "save" /\ tasks' = Swap(t, u)
             /\ Arrives(u, "writefile") =>
                   /\ \E t \in Running : t.pc = "saving" /\ tasks' = Swap(t, u)
                   /\ u.snap = channels
       /\ \A t \in Running :
             /\ (ChainEnded(t) /\ P2Unlock(t)) =>
                   \E u \in BagToSet(tasks') : u.pc = "save" /\ tasks' = Swap(t, u)
             /\ (t.pc = "p2fetch" /\ tasks' = Drop(t)) => cacheFile' = cacheFile
             /\ (t.pc # "writefile" /\ tasks' = Drop(t)) => t.pc = "p2fetch"
       /\ cacheFile' # cacheFile =>
             \E t \in Running :
                /\ t.pc = "writefile"
                /\ tasks' = Drop(t)
                /\ cacheFile' = [ok |-> TRUE, chans |-> t.snap]]_vars

\* a population has ended and the file it wrote holds the two channels of
\* the id map
C24_Witness ==
    /\ tasks = EmptyBag
    /\ cacheFile.ok
    /\ DOMAIN cacheFile.chans = {C1, C2}
    /\ cacheFile.chans = channels

\* the part of refreshChannelsInBackground a goroutine is in: 1 the member
\* loop, 2 the loop over all channels, 3 the snapshot
PhaseOf(t) ==
    IF t.pc \in {"p1fetch", "p1sleep", "p1lock", "p1ingest"} THEN 1
    ELSE IF t.pc \in {"p2fetch", "p2sleep", "p2lock", "p2ingest"} THEN 2
    ELSE 3

\* the member loop is left: by a failed fetch, or after the page without a
\* next cursor
MembersEnded(t) ==
    \/ t.pc = "p1fetch"
    \/ t.pc = "p1ingest" /\ t.i > Len(t.page) /\ t.next = 0

\* C25. A goroutine starts in Phase 1, never goes back to an earlier
\* phase and skips none; it enters Phase 2 only when its member loop has
\* ended, and then with the first fetch of all channels; when it ends it
\* is in Phase 2 or past it.
C25_PhaseOrder ==
    [][/\ \A u \in BagToSet(tasks') :
             CopiesIn(u, tasks') > CopiesIn(u, tasks) =>
                \/ tasks' = Launch(tasks) /\ u = NewTask /\ PhaseOf(u) = 1
                \/ \E t \in Running :
                      /\ tasks' = Swap(t, u)
                      /\ PhaseOf(t) <= PhaseOf(u)
                      /\ PhaseOf(u) <= PhaseOf(t) + 1
                      /\ (PhaseOf(t) = 1 /\ PhaseOf(u) = 2) =>
                            (MembersEnded(t) /\ u.pc = "p2fetch" /\ u.cursor = 0)
       /\ \A t \in Running : tasks' = Drop(t) => PhaseOf(t) >= 2]_vars

\* the start-up population is past both phases: C1 came from the member
\* loop and C2 from the loop over all channels
C25_Witness ==
    /\ ColdStarted
    /\ \E t \in Running : t.pc = "save"
    /\ DOMAIN channels = {C1, C2}
    /\ channels[C1].IsMember
    /\ ~channels[C2].IsMember

\* C26. Progressive visibility: when a goroutine releases the lock after
\* a page, and so before it fetches the next one, a reader can enter and
\* every channel of the page is in the id map; a channel of a Phase 1 page
\* is a member and its name resolves to its id.  And after a cold start,
\* while the population is in Phase 2, the name of every member channel
\* resolves to its id.
C26_ProgressiveVisibility ==
    /\ [][\A t \in Running :
             /\ P1Unlock(t) =>
                   /\ CanRLock(channelsMutex')
                   /\ \A i \in DOMAIN t.page :
                         /\ Has(channels', t.page[i].ID)
                         /\ channels'[t.page[i].ID] = Fields(t.page[i])
                         /\ t.page[i].Name # EmptyStr =>
                               ResolveChannelID(t.page[i].Name)' = t.page[i].ID
             /\ P2Unlock(t) =>
                   /\ CanRLock(channelsMutex')
                   /\ \A i \in DOMAIN t.page : Has(channels', t.page[i].ID)]_vars
    /\ [](ColdStarted =>
            \A t \in Running :
               PhaseOf(t) = 2 =>
                  \A id \in DOMAIN channels :
                     (channels[id].IsMember /\ channels[id].Name # EmptyStr)
                        => ResolveChannelID(channels[id].Name) = id)

\* after a cold start Phase 2 has ingested its first page and is about to
\* fetch the second: C1 of Phase 1 resolves by its name, which C2 of the
\* Phase 2 page has too, and both are in the id map
C26_Witness ==
    /\ ColdStarted
    /\ \E t \in Running : t.pc = "p2fetch" /\ t.cursor = 1
    /\ DOMAIN channels = {C1, C2}
    /\ channels[C1].IsMember
    /\ channels[C2].Name = general
    /\ ResolveChannelID(general) = C1
    /\ CanRLock(channelsMutex)

\* the refreshes allowed so far in the window a call at this instant
\* falls in
AllowedInWindow ==
    IF WindowExpired(now, refreshResetTime) THEN 0
    ELSE Cardinality({i \in DOMAIN allowed : allowed[i].window = refreshResetTime})

\* C27. Escalating minimum wait: a call is allowed only when the time
\* since lastChannelRefresh is at least 30 s plus 30 s for every refresh
\* allowed before it in the window of the call; any two Allowed results
\* are at least 30 s apart.
C27_EscalatingWait ==
    /\ [][(RefreshChannelCache /\ Outcome.Allowed) =>
             now - lastChannelRefresh >= BaseWait + AllowedInWindow * StepWait]_vars
    /\ [](\A i \in DOMAIN allowed, j \in DOMAIN allowed :
             i < j => allowed[j].at - allowed[i].at >= BaseWait)

\* three refreshes of one window, each allowed as early as the wait that
\* had grown by then let it: 60 s after the first, 90 s after the second
C27_Witness ==
    /\ Len(allowed) = MaxCallsPerWindow
    /\ \A i \in DOMAIN allowed : allowed[i].window = refreshResetTime
    /\ allowed[2].at - allowed[1].at = BaseWait + StepWait
    /\ allowed[3].at - allowed[2].at = BaseWait + 2 * StepWait
    /\ lastChannelRefresh = allowed[3].at

\* the goroutine holds the read lock and is about to store
\* ap.lastChannelRefresh
StoresUnderRLock(t) == t.pc = "saving"

\* C28. The three fields of the limiter change only in a step of a holder
\* of the write lock, and no goroutine is about to store one of them
\* while a GetCacheInfo call is in its read section or while another
\* goroutine is about to store it too.
C28_WrittenUnderLock ==
    /\ [][limiterVars' # limiterVars =>
             \/ channelsMutex.w
             \/ CanLock(channelsMutex) /\ RefreshChannelCache]_vars
    /\ [](\A t \in Running :
             StoresUnderRLock(t) =>
                /\ reader # "GetCacheInfo"
                /\ CopiesIn(t, tasks) = 1
                /\ \A u \in Running : StoresUnderRLock(u) => u = t)

----------------------------------------------------------------------------
(* The start-up population under fair scheduling *)

InitLive ==
    /\ InitState
    /\ cacheFile \in InitialFiles
    /\ upstream = SmallUpstream
    /\ horizon = MaxTime
    /\ taskCap = MaxTasksRL
    /\ audit = FALSE

\* a statement of refreshChannelsInBackground that waits for no lock
TaskStep ==
    \E t \in Running :
       \/ P1Fetch(t) \/ P1Wake(t) \/ P1Store(t) \/ P1Alias(t) \/ P1Unlock(t)
       \/ P2Fetch(t) \/ P2Wake(t) \/ P2Store(t) \/ P2Alias(t) \/ P2Unlock(t)
       \/ SaveCopy(t) \/ WriteFile(t)

\* a Lock() or RLock() of refreshChannelsInBackground
TaskLock == \E t \in Running : P1Lock(t) \/ P2Lock(t) \/ SaveRLock(t)

\* the start-up path
BootStep ==
    \E b \in BootIds :
       ProvideCall(b) \/ ProvideBoot(b) \/ Bootstrap(b) \/ LoadLock(b) \/ LoadFill(b)

NextLive ==
    \/ BootStep
    \/ TaskStep
    \/ TaskLock
    \/ \E op \in ReadOps : ReadLock(op)
    \/ ReadUnlock
    \/ \E d \in TickSteps : Tick(d)

\* The scheduler runs a goroutine that can run, time passes, a read
\* section ends, and a goroutine that waits for the mutex gets it: a
\* blocked Lock() keeps new readers out.
Fairness ==
    /\ WF_vars(TaskStep)
    /\ SF_vars(TaskLock)
    /\ WF_vars(ReadUnlock)
    /\ WF_vars(\E d \in TickSteps : Tick(d))

SpecLive == InitLive /\ [][NextLive]_vars /\ Fairness

\* C29. Termination: a population goroutine that was launched ends, after
\* the snapshot or by a failed Phase 2 fetch.
C29_PopulationTerminates == (tasks # EmptyBag) ~> (tasks = EmptyBag)

\* the start-up population has ended after a sleep: its snapshot step ran
\* when the clock had advanced
C29_Witness ==
    /\ boots["main"].pc = "done"
    /\ tasks = EmptyBag
    /\ now > 0
    /\ lastChannelRefresh = now
    /\ cacheFile.ok
    /\ DOMAIN cacheFile.chans = {C1, C2}

----------------------------------------------------------------------------
(* Two callers of Provide() *)

\* the goroutine main starts and a request handler
Callers == {"main", "handler"}

\* the state New() returns, with the two callers before their calls
InitRace ==
    /\ client = "nil"
    /\ channels = EmptyMap
    /\ channelNames = EmptyMap
    /\ channelsMutex = Unlocked
    /\ lastChannelRefresh = ZeroTime
    /\ refreshCalls = 0
    /\ refreshResetTime = ZeroTime
    /\ now = 0
    /\ boots = [b \in Callers |-> [pc |-> "idle", data |-> [ok |-> FALSE, chans |-> <<>>]]]
    /\ tasks = EmptyBag
    /\ reader = "idle"
    /\ gci = [pc |-> "idle", channelID |-> EmptyStr, info |-> Chan(EmptyStr, EmptyStr, FALSE)]
    /\ fetched = {}
    /\ allowed = <<>>
    /\ cacheFile \in InitialFiles
    /\ upstream = QuietUpstream
    /\ horizon = MaxTime
    /\ taskCap = MaxTasks
    /\ audit = FALSE

NextRace ==
    \/ \E b \in Callers : ProvideCall(b)
    \/ \E b \in Callers : ProvideBoot(b)
    \/ \E b \in Callers : Bootstrap(b)
    \/ \E b \in Callers : LoadLock(b)
    \/ \E b \in Callers : LoadFill(b)
    \/ \E t \in Running : P1Fetch(t)
    \/ \E t \in Running : P1Lock(t)
    \/ \E t \in Running : P1Unlock(t)
    \/ \E t \in Running : P2Fetch(t)
    \/ \E t \in Running : P2Lock(t)
    \/ \E t \in Running : P2Unlock(t)
    \/ \E t \in Running : SaveRLock(t)
    \/ \E t \in Running : SaveCopy(t)
    \/ \E t \in Running : WriteFile(t)
    \/ \E op \in ReadOps : ReadLock(op)
    \/ ReadUnlock
    \/ \E d \in TickSteps : Tick(d)

SpecRace == InitRace /\ [][NextRace]_vars

\* the caller is inside the body of if ap.client == nil
InStartup(b) == boots[b].pc \notin {"idle", "done"}

\* C30. The start-up runs at most once: no two callers of Provide() are
\* inside the start-up path together, no second start-up population is
\* launched, and a step never empties an id map that has entries.
C30_StartupOnce ==
    /\ [](\A b \in DOMAIN boots, c \in DOMAIN boots :
             (InStartup(b) /\ InStartup(c)) => b = c)
    /\ [](client = "set" => BagCardinality(tasks) <= 1)
    /\ [][channels # EmptyMap => channels' # EmptyMap]_vars

----------------------------------------------------------------------------
(* The fallback against the populations *)

\* C31. The fallback's write leaves an entry that is in the id map by
\* then as it is, takes no entry's membership away, and leaves every
\* alias that is in the name map by then pointing where it points.
C31_FallbackKeepsIngested ==
    [][/\ GciStore =>
             /\ Has(channels, gci.channelID) => channels' = channels
             /\ \A id \in DOMAIN channels :
                   channels[id].IsMember => channels'[id].IsMember
       /\ GciAlias =>
             \A n \in DOMAIN channelNames : channelNames'[n] = channelNames[n]]_vars

----------------------------------------------------------------------------
(* The cache with its readers under fair scheduling *)

\* The callers other than the populations: a Lock() that is requested is
\* granted, and the section it opens ends.
FairCallers ==
    /\ SF_vars(GciStore)
    /\ WF_vars(GciAlias)
    /\ SF_vars(\E b \in BootIds : LoadLock(b))
    /\ WF_vars(\E b \in BootIds : LoadFill(b))

SpecFair == InitLock /\ [][NextLock]_vars /\ Fairness /\ FairCallers

\* the callers inside a read section of the mutex
Readers ==
    (IF reader # "idle" THEN 1 ELSE 0)
    + BagCardinality([t \in {u \in Running : u.pc = "saving"} |-> tasks[t]])

\* the mutex is free and no caller is at a Lock() or RLock()
NobodyWaits ==
    /\ channelsMutex = Unlocked
    /\ gci.pc # "lock"
    /\ \A b \in BootIds : boots[b].pc # "loadlock"
    /\ \A t \in Running : t.pc \notin {"p1lock", "p2lock", "save"}

\* C32. The mutex is held only by callers inside the start-up load, the
\* loop over one page, the cache write of the fallback, the copy for the
\* snapshot or a read-only call, none of which sleeps, fetches or touches
\* a file; and nobody waits for ever: again and again the mutex is free
\* with no caller waiting for it, so every Lock() and RLock() that was
\* requested has been granted and released.
C32_NoDeadlock ==
    /\ [](/\ channelsMutex.r = Readers
          /\ Writers = (IF channelsMutex.w THEN 1 ELSE 0)
          /\ ~(channelsMutex.w /\ channelsMutex.r > 0))
    /\ []<>NobodyWaits

\* the population a manual refresh launched waits for the mutex, which
\* the fallback holds for its cache write
C32_Witness ==
    /\ refreshCalls = 1
    /\ \E t \in Running : t.pc = "p1lock"
    /\ gci.pc = "alias"
    /\ channelsMutex.w
    /\ ~ENABLED (\E t \in Running : P1Lock(t))

----------------------------------------------------------------------------
(* What RetryAfter promises *)

\* whether a call at time t is allowed when the three fields of the limiter
\* are last, calls and reset: the window test, then the denial test
AllowedAt(t, last, calls, reset) ==
    LET counted == IF WindowExpired(t, reset) THEN 0 ELSE calls
    IN  ~Denied(Sub(t, last), MinWait(counted), counted)

\* C33. RetryAfter is truthful: after a call was denied with RetryAfter d,
\* a call d later, with the limiter as the denied call left it, is
\* allowed.
C33_RetryAfterTruthful ==
    (Callable /\ ~Outcome.Allowed) =>
        AllowedAt(now + Outcome.RetryAfter, lastChannelRefresh, Outcome.RefreshCount,
                  ResetTime)

----------------------------------------------------------------------------
(* The rate limiter over two windows *)

InitLockout ==
    /\ InitState
    /\ cacheFile \in InitialFiles
    /\ upstream = QuietUpstream
    /\ horizon = 2 * Window
    /\ taskCap = MaxTasksRL
    /\ audit = FALSE

SpecLockout == InitLockout /\ [][NextRL]_vars

\* C34. No permanent lock-out: a call that comes more than 5 minutes and
\* 30 seconds after lastChannelRefresh was last written is allowed.
C34_NoLockout ==
    (Callable /\ now - lastChannelRefresh > Window + BaseWait) => Outcome.Allowed

\* three refreshes were allowed, a denied call has started a new window
\* since, and more than 5 minutes and 30 seconds after the third refresh
\* a call is allowed
C34_Witness ==
    /\ Callable
    /\ lastChannelRefresh >= 0
    /\ refreshCalls = MaxCallsPerWindow
    /\ refreshResetTime >= 0
    /\ now - lastChannelRefresh > Window + BaseWait
    /\ Outcome.Allowed

----------------------------------------------------------------------------
(* Aliases and the resolver *)

\* C35. Every alias is resolvable: ResolveChannelID of a key of the name
\* map returns the id the key is mapped to.
C35_EveryAliasResolves ==
    \A k \in DOMAIN channelNames : ResolveChannelID(k) = channelNames[k]

\* C36. Every Denied result of RefreshChannelCache carries a strictly
\* positive RetryAfter, also when the call cap of the window denies and
\* the minimum wait has passed.
C36_RetryAfterPositive ==
    (Callable /\ ~Outcome.Allowed) => Outcome.RetryAfter > 0

----------------------------------------------------------------------------
(* The snapshot round trip *)

\* ResolveChannelID over a name map that is given
ResolveWith(names, channelNameOrID) ==
    IF LooksLikeID(channelNameOrID) THEN channelNameOrID
    ELSE IF Has(names, channelNameOrID) THEN names[channelNameOrID]
    ELSE IF Has(names, ToLower(channelNameOrID)) THEN names[ToLower(channelNameOrID)]
    ELSE channelNameOrID

\* the indexes a warm start can build from a snapshot of the id map chs:
\* the entries are written in the order of a map iteration, and
\* loadChannelsProgressive loads them in that order into fresh maps
WarmStarts(chs) ==
    {LoadAll([chs |-> EmptyMap, names |-> EmptyMap], cachedChannels, 1) :
        cachedChannels \in Orderings(chs)}

\* the entries of chs that a warm start maps the name x to
Carriers(chs, x) == {id \in DOMAIN chs : x \in DOMAIN LoadNames(EmptyMap, chs[id])}

\* the slice cachedChannels that a step of SaveCopy has just filled, as
\* the map of its entries
Copied ==
    LET u == CHOOSE v \in BagToSet(tasks') : CopiesIn(v, tasks') > CopiesIn(v, tasks)
    IN  u.snap

\* C37 as stated. Warm-starting from the snapshot taken at the end of a
\* population yields the id map and, for every name, the result of
\* ResolveChannelID that the live index had when the snapshot was taken.
C37_RoundTrip ==
    [][\A t \in Running :
         SaveCopy(t) =>
            \A idx \in WarmStarts(Copied) :
               /\ idx.chs = channels
               /\ \A x \in Probes :
                     ResolveWith(idx.names, x) = ResolveWith(channelNames, x)]_vars

\* C37 amended. The warm start yields the id map of the live index; a key
\* of the live name map resolves as it did when exactly one entry of the
\* snapshot carries it and the live alias points to that entry.
C37_RoundTripOfOwnNames ==
    [][\A t \in Running :
         SaveCopy(t) =>
            \A idx \in WarmStarts(Copied) :
               /\ idx.chs = channels
               /\ \A x \in Probes :
                     (/\ Has(channelNames, x)
                      /\ Carriers(Copied, x) = {channelNames[x]})
                        => ResolveWith(idx.names, x) = ResolveWith(channelNames, x)]_vars

\* a population has just copied an id map of two channels with two names,
\* each alias pointing to the one channel of that name
C37_Witness ==
    \E t \in Running :
       /\ t.pc = "writefile"
       /\ t.snap = channels
       /\ DOMAIN channels = {C1, C2}
       /\ Has(channelNames, general) /\ Carriers(channels, general) = {channelNames[general]}
       /\ Has(channelNames, random) /\ Carriers(channels, random) = {channelNames[random]}
       /\ \A idx \in WarmStarts(channels) :
             /\ ResolveWith(idx.names, general) = C1
             /\ ResolveWith(idx.names, random) = C2

----------------------------------------------------------------------------
(* Aliases of renamed channels *)

====
